---- MODULE Spec2Model ----
(***************************************************************************)
(* State-machine model of gogogo.py: the maze generator (recursive         *)
(* backtracking), the spawn locator, the player's health, the monster's    *)
(* attack cycle and the game state machine.                                *)
(*                                                                         *)
(* Time is counted in tenths of a second: a timer of 1.0 s is 10.          *)
(* World coordinates are counted in half cells (CELL_SIZE is 1.0), so the  *)
(* centre of every grid cell is an integer point.                          *)
(* Grid cells are addressed as in the source, maze_grid[y][x] with         *)
(* 0-based indices; the model stores the rows as sequences, so the cell    *)
(* (x, y) is maze_grid[y + 1][x + 1].                                      *)
(***************************************************************************)
EXTENDS Integers, Sequences, FiniteSets, TLC

VARIABLES
    game_config,     \* the GameConfig knobs that vary between runs
    maze_grid,       \* TerrainMazeGenerator.maze_grid (<<>> when cleared)
    mesh_entity,     \* TRUE iff TerrainMazeGenerator.mesh_entity is not None
    stack,           \* call stack of _carve_path (frames of the recursion)
    carve_calls,     \* number of _carve_path calls of the running generation
    spawn_search,    \* the running or last call of find_monster_spawn_point:
                     \* its attempts, its samples and what it returned
    current_state,   \* Game.current_state
    player,          \* Game.player (exists = FALSE models None)
    goal,            \* Game.goal
    monster,         \* Game.monster
    game_entities,   \* Game.game_entities, as the names of the entities
    projectiles,     \* the MonsterProjectile entities of the scene, in order
    ui_enabled,      \* the UI elements whose enabled flag is set
    health_display,  \* the health last given to update_health_display
    sequences,       \* invoke(...) calls in flight: remaining delay of each
    frame,           \* the engine's frame loop: its position and time.dt
    app_running,     \* FALSE after application.quit()
    called,          \* functions called by the last step (observation only)
    state_before,    \* Game.current_state when the last step began
                     \* (observation only)
    since_hit,       \* Player.update time since the last health decrement
                     \* of the running game, -1 if none (observation only)
    attack_log       \* the Monster.update calls of the running windup and
                     \* since the last firing (observation only)

gameVars == <<current_state, player, goal, monster, game_entities, projectiles,
              ui_enabled, health_display, sequences, frame, app_running,
              called, state_before, since_hit, attack_log>>

vars == <<game_config, maze_grid, mesh_entity, stack, carve_calls, spawn_search,
          current_state, player, goal, monster, game_entities, projectiles,
          ui_enabled, health_display, sequences, frame, app_running,
          called, state_before, since_hit, attack_log>>

-----------------------------------------------------------------------------
(* Bounds of the model *)

\* largest MAZE_DIMENSION a run is configured with (before the odd coercion)
MaxDim == 4

\* largest PLAYER_MAX_HEALTH and MONSTER_ATTACK_DAMAGE a run is configured with
MaxHealth == 3

MaxDamage == 2

\* the frame times time.dt takes: a short and a long frame
ShortDt == 5

LongDt == 10

\* Monster.current_patrol_time is not let grow beyond this
MaxPatrolTime == 10

\* at most this many invoke(...) calls are in flight
MaxSequences == 2

\* the mesh builder is run on every grid up to this dimension
MaxGridDim == 3
MaxStray == 1

-----------------------------------------------------------------------------
(* GameState and GameConfig *)

MENU == "MENU"
PLAYING == "PLAYING"
PAUSED == "PAUSED"
WIN == "WIN"
LOSE == "LOSE"

GameState == {MENU, PLAYING, PAUSED, WIN, LOSE}

PLAYER_HIT_INVULNERABILITY_TIME == 10
MONSTER_PATROL_FREQUENCY == 1
MONSTER_ATTACK_COOLDOWN == 30
MONSTER_ATTACK_WINDUP_TIME == 10
MONSTER_ATTACK_PROJECTILE_LIFETIME == 20

\* delay of the invoke in Goal.on_trigger_enter
WIN_DELAY == 1

\* the health the HUD text shows when UIManager is constructed ('HP: 3/3')
INITIAL_HEALTH_TEXT == 3

\* maze_grid cell values
WALL == 1

PATH == 0

\* find_monster_spawn_point: while attempts < 100
MAX_SPAWN_ATTEMPTS == 100

\* GameConfig.__init__: an even MAZE_DIMENSION is incremented to the next odd
OddDimension(d) == IF d % 2 = 0 THEN d + 1 ELSE d

Dimensions == {OddDimension(d) : d \in 3..MaxDim}

Configs ==
    [MAZE_DIMENSION : Dimensions,
     PLAYER_MAX_HEALTH : 1..MaxHealth,
     MONSTER_ATTACK_DAMAGE : 1..MaxDamage]

Dim == game_config.MAZE_DIMENSION

\* the values of time.dt
FrameTimes == {ShortDt, LongDt}

-----------------------------------------------------------------------------
(* TerrainMazeGenerator: grid helpers *)

Cell(g, x, y) == g[y + 1][x + 1]

SetCell(g, x, y, v) == [g EXCEPT ![y + 1][x + 1] = v]

\* [[1 for _ in range(dimension)] for _ in range(dimension)]
AllWalls(D) == [y \in 1..D |-> [x \in 1..D |-> WALL]]

\* directions = [(0, 1), (1, 0), (0, -1), (-1, 0)]
Directions == <<<<0, 1>>, <<1, 0>>, <<0, -1>>, <<-1, 0>>>>

\* a faulty test of _carve_path's loop: a cell already carved is entered
\* again
CanCarveAgain(D, g, nx, ny) ==
    /\ 0 < nx /\ nx < D - 1
    /\ 0 < ny /\ ny < D - 1

\* the test of _carve_path's loop: the cell two steps away lies strictly
\* inside the border and is still a wall
CanCarve(D, g, nx, ny) ==
    /\ 0 < nx /\ nx < D - 1
    /\ 0 < ny /\ ny < D - 1
    /\ Cell(g, nx, ny) = WALL

\* a faulty draw of the start cell: the "+ 1" left out
StartCellsEven(D) == {<<i * 2, j * 2>> : i, j \in 0..((D \div 2) - 1)}

\* start_x, start_y = randrange(dimension // 2) * 2 + 1, each
StartCells(D) == {<<i * 2 + 1, j * 2 + 1>> : i, j \in 0..((D \div 2) - 1)}

\* a faulty carving step: the intermediate cell is left a wall
CarveSkipsWall(g, cx, cy, dx, dy) == SetCell(g, cx + dx * 2, cy + dy * 2, PATH)

\* the two writes of a carving step from (cx, cy) in direction (dx, dy): the
\* intermediate cell, then the first statement of the recursive call
\* a faulty carving step: the cell beyond the next one is opened in place
\* of the cell between
CarveOvershoots(g, cx, cy, dx, dy) ==
    SetCell(SetCell(g, cx + dx * 3, cy + dy * 3, PATH),
            cx + dx * 2, cy + dy * 2, PATH)

Carve(g, cx, cy, dx, dy) ==
    SetCell(SetCell(g, cx + dx, cy + dy, PATH), cx + dx * 2, cy + dy * 2, PATH)

-----------------------------------------------------------------------------
(* TerrainMazeGenerator.generate_random_maze as a relation: the set of grids *)
(* a call can return, over every start cell and every shuffle.               *)
(* random.shuffle(directions) followed by the for loop visits the four       *)
(* directions in an arbitrary order: `rest` is the set of indices of         *)
(* Directions the loop has still to visit, and any of them can be next.      *)

\* the directions whose target lies inside the border: the others fail the
\* test of the loop wherever the shuffle puts them, and change nothing
InBorder(D, cx, cy) ==
    {k \in 1..4 : LET nx == cx + Directions[k][1] * 2
                      ny == cy + Directions[k][2] * 2
                  IN  0 < nx /\ nx < D - 1 /\ 0 < ny /\ ny < D - 1}

RECURSIVE CarvePath(_, _, _, _), CarveRest(_, _, _, _, _)

\* the loop of _carve_path(cx, cy), on a grid whose cell (cx, cy) is marked
CarvePath(D, g, cx, cy) ==
    UNION { CarveRest(D, g1, cx, cy, InBorder(D, cx, cy)) : g1 \in {g} }

\* the remaining iterations of the loop of _carve_path(cx, cy)
CarveRest(D, g, cx, cy, rest) ==
    IF rest = {} THEN {g}
    ELSE UNION {
        LET dx == Directions[k][1]
            dy == Directions[k][2]
            nx == cx + dx * 2
            ny == cy + dy * 2
        IN  IF CanCarve(D, g, nx, ny)
            THEN UNION { CarveRest(D, g2, cx, cy, rest \ {k}) :
                         g2 \in CarvePath(D, Carve(g, cx, cy, dx, dy), nx, ny) }
            ELSE CarveRest(D, g, cx, cy, rest \ {k})
        : k \in rest }

\* the grids a call of generate_random_maze can leave in maze_grid
GeneratedMazes(D) ==
    UNION { CarvePath(D, SetCell(AllWalls(D), s[1], s[2], PATH), s[1], s[2]) :
            s \in StartCells(D) }

\* the same, per configured dimension
MazeTable == [D \in Dimensions |-> GeneratedMazes(D)]

-----------------------------------------------------------------------------
(* SpawnLocator: find_spawn_point, find_goal_point, find_monster_spawn_point *)

\* a faulty _is_valid_grid_pos: the cell is compared with 1
IsValidGridPosWall(D, g, x, y) ==
    /\ 0 <= x /\ x < D
    /\ 0 <= y /\ y < D
    /\ Cell(g, x, y) = WALL

\* _is_valid_grid_pos(x, y)
IsValidGridPos(D, g, x, y) ==
    /\ 0 <= x /\ x < D
    /\ 0 <= y /\ y < D
    /\ Cell(g, x, y) = PATH

\* the cells the loops of find_spawn_point and find_goal_point range over
\* (range(1, dimension - 1) and range(dimension - 2, 0, -1)), as (x, z)
Interior(D) == {<<x, z>> : x, z \in 1..(D - 2)}

\* the cells of the scan that pass _is_valid_grid_pos
ScanHits(D, g) == {c \in Interior(D) : IsValidGridPos(D, g, c[1], c[2])}

\* c comes before d when z runs in the outer loop and x in the inner loop
ScansBefore(c, d) == c[2] < d[2] \/ (c[2] = d[2] /\ c[1] <= d[1])

\* find_spawn_point: the first hit of the ascending scan, else (1, 1)
FindSpawnPoint(D, g) ==
    IF ScanHits(D, g) = {} THEN <<1, 1>>
    ELSE CHOOSE c \in ScanHits(D, g) : \A d \in ScanHits(D, g) : ScansBefore(c, d)

\* a faulty find_goal_point: the scan runs in ascending order
FindGoalPointAscending(D, g) ==
    IF ScanHits(D, g) = {} THEN <<D - 2, D - 2>>
    ELSE CHOOSE c \in ScanHits(D, g) : \A d \in ScanHits(D, g) : ScansBefore(c, d)

\* find_goal_point: the first hit of the descending scan, else (D-2, D-2)
FindGoalPoint(D, g) ==
    IF ScanHits(D, g) = {} THEN <<D - 2, D - 2>>
    ELSE CHOOSE c \in ScanHits(D, g) : \A d \in ScanHits(D, g) : ScansBefore(d, c)

Abs(n) == IF n < 0 THEN -n ELSE n

Manhattan(c, d) == Abs(c[1] - d[1]) + Abs(c[2] - d[2])

\* a faulty test of the sample: the distance to the goal is not looked at
MonsterSampleOkNearGoal(D, g, c) ==
    /\ IsValidGridPos(D, g, c[1], c[2])
    /\ 4 * Manhattan(c, FindSpawnPoint(D, g)) > D

\* the test a sample (x, y) of find_monster_spawn_point must pass to be
\* returned; dist > dimension / 4 is compared as 4 * dist > dimension
MonsterSampleOk(D, g, c) ==
    /\ IsValidGridPos(D, g, c[1], c[2])
    /\ 4 * Manhattan(c, FindSpawnPoint(D, g)) > D
    /\ 4 * Manhattan(c, FindGoalPoint(D, g)) > D

\* find_monster_spawn_point: the set of cells it can return.  A sample is
\* random.randint(1, D - 2) twice; the loop returns the first of its
\* MAX_SPAWN_ATTEMPTS samples that passes the test, and the centre of the
\* grid when every sample fails the test.
FindMonsterSpawnPoint(D, g) ==
    LET passing == {c \in Interior(D) : MonsterSampleOk(D, g, c)}
        failing == Interior(D) \ passing
    IN  (IF MAX_SPAWN_ATTEMPTS > 0 THEN passing ELSE {})
        \cup (IF MAX_SPAWN_ATTEMPTS = 0 \/ failing # {}
              THEN {<<D \div 2, D \div 2>>}
              ELSE {})

\* get_world_position(grid_x, grid_z), x and z in half cells:
\* (grid - D / 2 + 0.5) * CELL_SIZE
GetWorldPosition(D, c) == <<2 * c[1] - D + 1, 2 * c[2] - D + 1>>

\* the grid cell whose centre is the world position p
GridCell(D, p) == <<(p[1] + D - 1) \div 2, (p[2] + D - 1) \div 2>>

-----------------------------------------------------------------------------
(* Entities.  A field `exists` = FALSE stands for a None reference.          *)

None == <<>>

NoPlayer ==
    [exists |-> FALSE, enabled |-> FALSE, start_position |-> None,
     position |-> None, max_health |-> 0, current_health |-> 0,
     is_invulnerable |-> FALSE, invulnerability_timer |-> 0]

\* Player.__init__
NewPlayer(cfg, position) ==
    [exists |-> TRUE, enabled |-> TRUE, start_position |-> position,
     position |-> position, max_health |-> cfg.PLAYER_MAX_HEALTH,
     current_health |-> cfg.PLAYER_MAX_HEALTH,
     is_invulnerable |-> FALSE, invulnerability_timer |-> 0]

NoGoal == [exists |-> FALSE, enabled |-> FALSE, position |-> None]

\* Goal.__init__
NewGoal(position) == [exists |-> TRUE, enabled |-> TRUE, position |-> position]

NoMonster ==
    [exists |-> FALSE, enabled |-> FALSE, start_position |-> None,
     position |-> None, patrol_start_x |-> 0, current_patrol_time |-> 0,
     attack_cooldown_timer |-> 0, attack_windup_timer |-> 0,
     is_winding_up_attack |-> FALSE, target_for_attack |-> None]

\* Monster.__init__
NewMonster(position) ==
    [exists |-> TRUE, enabled |-> TRUE, start_position |-> position,
     position |-> position, patrol_start_x |-> position[1],
     current_patrol_time |-> 0,
     attack_cooldown_timer |-> 0, attack_windup_timer |-> 0,
     is_winding_up_attack |-> FALSE, target_for_attack |-> None]

\* MonsterProjectile.__init__: direction is kept as the pair of points it
\* was computed from, (target - start).normalized()
NewProjectile(start_pos, target) ==
    [timer |-> MONSTER_ATTACK_PROJECTILE_LIFETIME,
     from |-> start_pos, toward |-> target]

\* what is observed of the monster's attack cycle: the Monster.update calls
\* made since the one that started the running windup and their summed dt;
\* the dt summed over the Monster.update calls since the last firing of this
\* monster (-1 if it has not fired, counted up to COOLDOWN + WINDUP), and
\* whether start_game has reset the monster since that firing
NoAttackLog == [ticks |-> 0, elapsed |-> 0, since_fire |-> -1, restarted |-> FALSE]

-----------------------------------------------------------------------------
(* UIManager *)

MenuGroup == {"menu_bg", "title_text", "start_button", "exit_button"}

GameOverButtons == {"restart_button", "back_to_menu_button"}

PauseGroup == {"pause_bg", "pause_text", "resume_button", "pause_to_menu_button"}

HudGroup == {"health_bar_bg", "health_bar_fill", "health_text"}

\* UIManager.__init__: the elements constructed without enabled=False
InitialUi == MenuGroup \cup {"health_bar_fill", "health_text"}

\* a button can be clicked when it is enabled
Clickable(b) == b \in ui_enabled

-----------------------------------------------------------------------------
(* The handlers as functions on the world: the record of everything a       *)
(* handler can read or write.                                               *)

World ==
    [cfg |-> game_config, current_state |-> current_state, player |-> player,
     goal |-> goal, monster |-> monster, game_entities |-> game_entities,
     projectiles |-> projectiles, ui_enabled |-> ui_enabled,
     health_display |-> health_display, maze_grid |-> maze_grid,
     mesh_entity |-> mesh_entity, called |-> {}, since_hit |-> since_hit,
     attack_log |-> attack_log]

Commit(w) ==
    /\ current_state' = w.current_state
    /\ player' = w.player
    /\ goal' = w.goal
    /\ monster' = w.monster
    /\ game_entities' = w.game_entities
    /\ projectiles' = w.projectiles
    /\ ui_enabled' = w.ui_enabled
    /\ health_display' = w.health_display
    /\ maze_grid' = w.maze_grid
    /\ mesh_entity' = w.mesh_entity
    /\ called' = w.called
    /\ state_before' = current_state
    /\ since_hit' = w.since_hit
    /\ attack_log' = w.attack_log
    /\ UNCHANGED <<game_config, stack, carve_calls, spawn_search>>

Calls(w, f) == [w EXCEPT !.called = @ \cup {f}]

InList(w, name) == \E i \in 1..Len(w.game_entities) : w.game_entities[i] = name

\* UIManager.hide_all_ui
HideAllUi(w) == [w EXCEPT !.ui_enabled = {}]

\* UIManager.show_menu
ShowMenu(w) == [w EXCEPT !.ui_enabled = MenuGroup]

\* UIManager.show_game_over_screen(is_win)
ShowGameOverScreen(w, is_win) ==
    [w EXCEPT !.ui_enabled =
        {IF is_win THEN "win_text" ELSE "lose_text"} \cup GameOverButtons]

\* UIManager.show_pause_menu
ShowPauseMenu(w) == [w EXCEPT !.ui_enabled = PauseGroup]

\* UIManager.show_game_hud
ShowGameHud(w) == [w EXCEPT !.ui_enabled = @ \cup HudGroup]

\* UIManager.update_health_display(current_health)
UpdateHealthDisplay(w, h) == [w EXCEPT !.health_display = h]

\* Game._activate_gameplay_entities: every entity of game_entities is enabled
ActivateGameplayEntities(w) ==
    [w EXCEPT !.player.enabled = IF InList(w, "player") THEN TRUE ELSE @,
              !.goal.enabled = IF InList(w, "goal") THEN TRUE ELSE @,
              !.monster.enabled = IF InList(w, "monster") THEN TRUE ELSE @]

\* a faulty _deactivate_gameplay_entities: the projectiles are left in the
\* scene
DeactivateKeepsProjectiles(w, exclude_player) ==
    [w EXCEPT !.player.enabled =
                  IF InList(w, "player") /\ ~exclude_player THEN FALSE ELSE @,
              !.goal.enabled = IF InList(w, "goal") THEN FALSE ELSE @,
              !.monster.enabled = IF InList(w, "monster") THEN FALSE ELSE @]

\* a faulty _deactivate_gameplay_entities: exclude_player is ignored
DeactivateDisablesPlayer(w, exclude_player) ==
    [w EXCEPT !.player.enabled = IF InList(w, "player") THEN FALSE ELSE @,
              !.goal.enabled = IF InList(w, "goal") THEN FALSE ELSE @,
              !.monster.enabled = IF InList(w, "monster") THEN FALSE ELSE @,
              !.projectiles = <<>>]

\* Game._deactivate_gameplay_entities(exclude_player): every entity of
\* game_entities but the excluded player is disabled, and every
\* MonsterProjectile of the scene is destroyed
DeactivateGameplayEntities(w, exclude_player) ==
    [w EXCEPT !.player.enabled =
                  IF InList(w, "player") /\ ~exclude_player THEN FALSE ELSE @,
              !.goal.enabled = IF InList(w, "goal") THEN FALSE ELSE @,
              !.monster.enabled = IF InList(w, "monster") THEN FALSE ELSE @,
              !.projectiles = <<>>]

\* TerrainMazeGenerator.clear_maze
ClearMaze(w) == [w EXCEPT !.mesh_entity = FALSE, !.maze_grid = <<>>]

\* a faulty _unload_game_entities: the maze is not cleared
UnloadKeepsMaze(w) ==
    [w EXCEPT !.player = NoPlayer, !.goal = NoGoal,
              !.monster = NoMonster, !.game_entities = <<>>,
              !.projectiles = <<>>, !.since_hit = -1,
              !.attack_log = NoAttackLog]

\* a faulty _unload_game_entities: the list game_entities is not cleared
UnloadKeepsList(w) ==
    ClearMaze([w EXCEPT !.player = NoPlayer, !.goal = NoGoal,
                        !.monster = NoMonster,
                        !.projectiles = <<>>, !.since_hit = -1,
                        !.attack_log = NoAttackLog])

\* Game._unload_game_entities: the entities of game_entities are destroyed,
\* the list and the three references cleared, the maze cleared, the
\* projectiles destroyed
UnloadGameEntities(w) ==
    ClearMaze([w EXCEPT !.player = NoPlayer, !.goal = NoGoal,
                        !.monster = NoMonster, !.game_entities = <<>>,
                        !.projectiles = <<>>, !.since_hit = -1,
                        !.attack_log = NoAttackLog])

\* a faulty set_game_state: no early return when the state is the same
SetGameStateUnguarded(w, new_state) ==
    LET w1 == HideAllUi([w EXCEPT !.current_state = new_state])
    IN  CASE new_state = MENU ->
               UnloadGameEntities(DeactivateGameplayEntities(ShowMenu(w1), FALSE))
          [] new_state = PLAYING ->
               ActivateGameplayEntities(ShowGameHud(HideAllUi(w1)))
          [] new_state = PAUSED ->
               DeactivateGameplayEntities(ShowPauseMenu(w1), TRUE)
          [] OTHER ->
               DeactivateGameplayEntities(
                   ShowGameOverScreen(w1, new_state = WIN), FALSE)

\* Game.set_game_state(new_state)
SetGameState(w, new_state) ==
    IF w.current_state = new_state THEN w
    ELSE LET w1 == HideAllUi([w EXCEPT !.current_state = new_state])
         IN  CASE new_state = MENU ->
                    UnloadGameEntities(DeactivateGameplayEntities(ShowMenu(w1), FALSE))
               [] new_state = PLAYING ->
                    ActivateGameplayEntities(ShowGameHud(HideAllUi(w1)))
               [] new_state = PAUSED ->
                    DeactivateGameplayEntities(ShowPauseMenu(w1), TRUE)
               [] OTHER ->
                    DeactivateGameplayEntities(
                        ShowGameOverScreen(w1, new_state = WIN), FALSE)

-----------------------------------------------------------------------------
(* Player *)

\* a faulty take_damage: the invulnerability window is not opened
TakeDamageNoWindow(w, amount) ==
    LET c == Calls(w, "take_damage")
    IN  IF ~c.player.is_invulnerable
        THEN LET h == c.player.current_health - amount
                 w1 == UpdateHealthDisplay(
                           [c EXCEPT !.player.current_health = h, !.since_hit = 0], h)
             IN  IF h <= 0 THEN SetGameState(w1, LOSE) ELSE w1
        ELSE c

\* a faulty take_damage: the game is lost only below zero
TakeDamageLateLose(w, amount) ==
    LET c == Calls(w, "take_damage")
    IN  IF ~c.player.is_invulnerable
        THEN LET h == c.player.current_health - amount
                 w1 == UpdateHealthDisplay(
                           [c EXCEPT !.player.current_health = h, !.since_hit = 0], h)
             IN  IF h < 0
                 THEN SetGameState(w1, LOSE)
                 ELSE [w1 EXCEPT !.player.is_invulnerable = TRUE,
                                 !.player.invulnerability_timer =
                                     PLAYER_HIT_INVULNERABILITY_TIME]
        ELSE c

\* Player.take_damage(amount)
TakeDamage(w, amount) ==
    LET c == Calls(w, "take_damage")
    IN  IF ~c.player.is_invulnerable
        THEN LET h == c.player.current_health - amount
                 w1 == UpdateHealthDisplay(
                           [c EXCEPT !.player.current_health = h, !.since_hit = 0], h)
             IN  IF h <= 0
                 THEN SetGameState(w1, LOSE)
                 ELSE [w1 EXCEPT !.player.is_invulnerable = TRUE,
                                 !.player.invulnerability_timer =
                                     PLAYER_HIT_INVULNERABILITY_TIME]
        ELSE c

Min(a, b) == IF a < b THEN a ELSE b

\* Player.update with time.dt = dt (the movement of FirstPersonController
\* and the blinking of `visible` are not part of the state)
PlayerUpdate(w, dt) ==
    LET t == w.player.invulnerability_timer - dt
        w1 == [w EXCEPT !.since_hit =
                   IF @ < 0 THEN @
                   ELSE Min(@ + dt, PLAYER_HIT_INVULNERABILITY_TIME)]
    IN  IF w.player.is_invulnerable
        THEN [w1 EXCEPT !.player.invulnerability_timer = t,
                        !.player.is_invulnerable = ~(t <= 0)]
        ELSE w1

\* a faulty reset_state: current_health is not restored
PlayerResetKeepsHealth(w) ==
    UpdateHealthDisplay(
        [w EXCEPT !.player.position = w.player.start_position,
                  !.player.is_invulnerable = FALSE,
                  !.player.invulnerability_timer = 0,
                  !.player.enabled = TRUE,
                  !.since_hit = -1],
        w.player.current_health)

\* Player.reset_state
PlayerResetState(w) ==
    UpdateHealthDisplay(
        [w EXCEPT !.player.position = w.player.start_position,
                  !.player.current_health = w.player.max_health,
                  !.player.is_invulnerable = FALSE,
                  !.player.invulnerability_timer = 0,
                  !.player.enabled = TRUE,
                  !.since_hit = -1],
        w.player.max_health)

\* Goal.reset_state
GoalResetState(w) == [w EXCEPT !.goal.enabled = TRUE]

-----------------------------------------------------------------------------
(* Monster *)

Sgn(n) == IF n > 0 THEN 1 ELSE IF n < 0 THEN -1 ELSE 0

\* round(2 * MONSTER_PATROL_AMPLITUDE * sin(t / 10)) for t = 0..40: the
\* offset of the sine patrol, in half cells, after t tenths of patrol time
SineTable ==
    <<0, 2, 3, 5, 6, 8, 9, 10, 11, 13, 13, 14, 15, 15, 16, 16, 16, 16, 16, 15,
      15, 14, 13, 12, 11, 10, 8, 7, 5, 4, 2, 1, -1, -3, -4, -6, -7, -8, -10,
      -11, -12>>

PatrolOffset(t) == SineTable[t + 1]

\* self.forward * 10 of an unrotated entity, in half cells
ForwardTarget == <<0, 20>>

\* a faulty _start_attack_windup: the windup timer is set to half the
\* configured time
StartAttackWindupShort(w) ==
    [w EXCEPT !.monster.is_winding_up_attack = TRUE,
              !.monster.attack_windup_timer = MONSTER_ATTACK_WINDUP_TIME \div 2,
              !.monster.target_for_attack =
                  IF w.player.exists /\ w.player.enabled
                  THEN w.player.position
                  ELSE ForwardTarget]

\* Monster._start_attack_windup
StartAttackWindup(w) ==
    [w EXCEPT !.monster.is_winding_up_attack = TRUE,
              !.monster.attack_windup_timer = MONSTER_ATTACK_WINDUP_TIME,
              !.monster.target_for_attack =
                  IF w.player.exists /\ w.player.enabled
                  THEN w.player.position
                  ELSE ForwardTarget]

\* a faulty _execute_attack: the projectile is aimed at the position the
\* player has when the windup ends
ExecuteAttackAtPlayer(w) ==
    LET fired == IF w.monster.target_for_attack # None
                 THEN Append(w.projectiles,
                             NewProjectile(w.monster.position,
                                           w.player.position))
                 ELSE w.projectiles
    IN  [w EXCEPT !.projectiles = fired, !.monster.target_for_attack = None]

\* a faulty _execute_attack: the target is cleared and no projectile is made
ExecuteAttackMisfires(w) ==
    [w EXCEPT !.monster.target_for_attack = None]

\* Monster._execute_attack
ExecuteAttack(w) ==
    LET fired == IF w.monster.target_for_attack # None
                 THEN Append(w.projectiles,
                             NewProjectile(w.monster.position,
                                           w.monster.target_for_attack))
                 ELSE w.projectiles
    IN  [w EXCEPT !.projectiles = fired, !.monster.target_for_attack = None]

\* Monster._chase_player: a step towards the player on the XZ plane
ChasePlayer(w) ==
    [w EXCEPT !.monster.position =
        <<@[1] + Sgn(w.player.position[1] - @[1]),
          @[2] + Sgn(w.player.position[2] - @[2])>>]

\* Monster._patrol with MONSTER_PATROL_TYPE = 'sine'
Patrol(w, dt) ==
    LET t == w.monster.current_patrol_time + dt * MONSTER_PATROL_FREQUENCY
    IN  [w EXCEPT !.monster.current_patrol_time = t,
                  !.monster.position =
                      <<w.monster.patrol_start_x + PatrolOffset(t),
                        w.monster.start_position[2]>>]

\* a faulty Monster.update: the windup flag is not cleared after the attack
MonsterUpdateKeepsWindup(w, dt, in_vision) ==
    IF w.current_state # PLAYING THEN w
    ELSE IF w.monster.is_winding_up_attack
    THEN LET t == w.monster.attack_windup_timer - dt
             w1 == [w EXCEPT !.monster.attack_windup_timer = t]
         IN  IF t <= 0
             THEN [ExecuteAttack(w1) EXCEPT
                       !.monster.attack_cooldown_timer = MONSTER_ATTACK_COOLDOWN]
             ELSE w1
    ELSE LET w1 == [w EXCEPT !.monster.attack_cooldown_timer = @ - dt]
             player_in_range == w.player.exists /\ w.player.enabled /\ in_vision
         IN  IF player_in_range /\ w1.monster.attack_cooldown_timer <= 0
             THEN StartAttackWindup(w1)
             ELSE IF player_in_range
             THEN ChasePlayer(w1)
             ELSE Patrol(w1, dt)

\* a faulty Monster.update: the cooldown is tested before it is decreased
MonsterUpdateStaleCooldown(w, dt, in_vision) ==
    IF w.current_state # PLAYING THEN w
    ELSE IF w.monster.is_winding_up_attack
    THEN LET t == w.monster.attack_windup_timer - dt
             w1 == [w EXCEPT !.monster.attack_windup_timer = t]
         IN  IF t <= 0
             THEN [ExecuteAttack(w1) EXCEPT
                       !.monster.is_winding_up_attack = FALSE,
                       !.monster.attack_cooldown_timer = MONSTER_ATTACK_COOLDOWN]
             ELSE w1
    ELSE LET w1 == [w EXCEPT !.monster.attack_cooldown_timer = @ - dt]
             player_in_range == w.player.exists /\ w.player.enabled /\ in_vision
         IN  IF player_in_range /\ w.monster.attack_cooldown_timer <= 0
             THEN StartAttackWindup(w1)
             ELSE IF player_in_range
             THEN ChasePlayer(w1)
             ELSE Patrol(w1, dt)

\* a faulty Monster.update: a windup that goes on does not return, the call
\* runs on into the cooldown and the movement
MonsterUpdateNoReturn(w, dt, in_vision) ==
    IF w.current_state # PLAYING THEN w
    ELSE IF w.monster.is_winding_up_attack
              /\ w.monster.attack_windup_timer - dt <= 0
    THEN LET w1 == [w EXCEPT !.monster.attack_windup_timer = @ - dt]
         IN  [ExecuteAttack(w1) EXCEPT
                  !.monster.is_winding_up_attack = FALSE,
                  !.monster.attack_cooldown_timer = MONSTER_ATTACK_COOLDOWN]
    ELSE LET w0 == IF w.monster.is_winding_up_attack
                   THEN [w EXCEPT !.monster.attack_windup_timer = @ - dt]
                   ELSE w
             w1 == [w0 EXCEPT !.monster.attack_cooldown_timer = @ - dt]
             player_in_range == w.player.exists /\ w.player.enabled /\ in_vision
         IN  IF player_in_range /\ w1.monster.attack_cooldown_timer <= 0
             THEN StartAttackWindup(w1)
             ELSE IF player_in_range
             THEN ChasePlayer(w1)
             ELSE Patrol(w1, dt)

\* Monster.update with time.dt = dt; in_vision is the outcome of
\* distance(self.position, game.player.position) < MONSTER_VISION_RANGE
MonsterUpdate(w, dt, in_vision) ==
    IF w.current_state # PLAYING THEN w
    ELSE IF w.monster.is_winding_up_attack
    THEN LET t == w.monster.attack_windup_timer - dt
             w1 == [w EXCEPT !.monster.attack_windup_timer = t]
         IN  IF t <= 0
             THEN [ExecuteAttack(w1) EXCEPT
                       !.monster.is_winding_up_attack = FALSE,
                       !.monster.attack_cooldown_timer = MONSTER_ATTACK_COOLDOWN]
             ELSE w1
    ELSE LET w1 == [w EXCEPT !.monster.attack_cooldown_timer = @ - dt]
             player_in_range == w.player.exists /\ w.player.enabled /\ in_vision
         IN  IF player_in_range /\ w1.monster.attack_cooldown_timer <= 0
             THEN StartAttackWindup(w1)
             ELSE IF player_in_range
             THEN ChasePlayer(w1)
             ELSE Patrol(w1, dt)

\* the attack log after the Monster.update call that led from w0 to w
LogAttack(w0, w, dt) ==
    LET fired == Len(w.projectiles) > Len(w0.projectiles)
        winding == w0.monster.is_winding_up_attack /\ ~fired
        log == w0.attack_log
    IN  [w EXCEPT !.attack_log =
            [ticks |-> IF winding THEN log.ticks + 1 ELSE 0,
             elapsed |-> IF winding THEN log.elapsed + dt ELSE 0,
             since_fire |->
                 IF fired THEN 0
                 ELSE IF log.since_fire < 0 THEN -1
                 ELSE Min(log.since_fire + dt,
                          MONSTER_ATTACK_COOLDOWN + MONSTER_ATTACK_WINDUP_TIME),
             restarted |-> ~fired /\ log.restarted]]

\* a faulty Monster.reset_state: the cooldown timer is left as it was
MonsterResetKeepsCooldown(w) ==
    [w EXCEPT !.monster.position = w.monster.start_position,
              !.monster.current_patrol_time = 0,
              !.monster.attack_windup_timer = 0,
              !.monster.is_winding_up_attack = FALSE,
              !.monster.enabled = TRUE]

\* Monster.reset_state
MonsterResetState(w) ==
    [w EXCEPT !.monster.position = w.monster.start_position,
              !.monster.current_patrol_time = 0,
              !.monster.attack_cooldown_timer = 0,
              !.monster.attack_windup_timer = 0,
              !.monster.is_winding_up_attack = FALSE,
              !.monster.enabled = TRUE]

-----------------------------------------------------------------------------
(* MonsterProjectile *)

RemoveAt(seq, i) == SubSeq(seq, 1, i - 1) \o SubSeq(seq, i + 1, Len(seq))

\* destroy(self) for the projectile that was i-th when its update began: it
\* is still the i-th unless an earlier destroy emptied the scene of them
DestroyProjectile(w, i) ==
    IF i <= Len(w.projectiles)
    THEN [w EXCEPT !.projectiles = RemoveAt(@, i)]
    ELSE w

\* a faulty MonsterProjectile.update: the projectile is not destroyed when it
\* hits the player
ProjectileUpdateSurvivesHit(w, i, dt, intersects) ==
    LET t == w.projectiles[i].timer - dt
        w1 == [Calls(w, "MonsterProjectile.update")
                   EXCEPT !.projectiles[i].timer = t]
        w2 == IF t <= 0 THEN DestroyProjectile(w1, i) ELSE w1
    IN  IF w2.player.exists /\ w2.player.enabled /\ intersects
        THEN TakeDamage(w2, w2.cfg.MONSTER_ATTACK_DAMAGE)
        ELSE w2

\* MonsterProjectile.update of the i-th projectile with time.dt = dt;
\* intersects is the outcome of self.intersects(game.player).hit
ProjectileUpdate(w, i, dt, intersects) ==
    LET t == w.projectiles[i].timer - dt
        w1 == [Calls(w, "MonsterProjectile.update")
                   EXCEPT !.projectiles[i].timer = t]
        w2 == IF t <= 0 THEN DestroyProjectile(w1, i) ELSE w1
    IN  IF w2.player.exists /\ w2.player.enabled /\ intersects
        THEN LET w3 == TakeDamage(w2, w2.cfg.MONSTER_ATTACK_DAMAGE)
             IN  IF t <= 0 \/ w3.projectiles = <<>>
                 THEN w3
                 ELSE DestroyProjectile(w3, i)
        ELSE w2

-----------------------------------------------------------------------------
(* Game.start_game, with the maze generate_random_maze returns and the      *)
(* cell find_monster_spawn_point returns as the outcomes of the random      *)
(* choices                                                                  *)

StartGame(w, g, monster_grid_pos) ==
    LET D == w.cfg.MAZE_DIMENSION
        w0 == [Calls(Calls(Calls(Calls(w, "generate_random_maze"),
                   "find_spawn_point"), "find_goal_point"),
                   "find_monster_spawn_point")
               EXCEPT !.maze_grid = g, !.mesh_entity = TRUE]
        player_world_pos == GetWorldPosition(D, FindSpawnPoint(D, g))
        goal_world_pos == GetWorldPosition(D, FindGoalPoint(D, g))
        monster_world_pos == GetWorldPosition(D, monster_grid_pos)
        w1 == IF ~w0.player.exists
              THEN [w0 EXCEPT !.player = NewPlayer(w0.cfg, player_world_pos),
                              !.game_entities = Append(@, "player"),
                              !.since_hit = -1]
              ELSE PlayerResetState(
                       [w0 EXCEPT !.player.start_position = player_world_pos])
        w2 == IF ~w1.goal.exists
              THEN [w1 EXCEPT !.goal = NewGoal(goal_world_pos),
                              !.game_entities = Append(@, "goal")]
              ELSE GoalResetState([w1 EXCEPT !.goal.position = goal_world_pos])
        w3 == IF ~w2.monster.exists
              THEN [w2 EXCEPT !.monster = NewMonster(monster_world_pos),
                              !.game_entities = Append(@, "monster")]
              ELSE MonsterResetState(
                       [w2 EXCEPT !.monster.start_position = monster_world_pos,
                                  !.attack_log =
                                      [NoAttackLog EXCEPT
                                           !.since_fire = w2.attack_log.since_fire,
                                           !.restarted = w2.attack_log.since_fire >= 0]])
    IN  SetGameState(w3, PLAYING)

-----------------------------------------------------------------------------
(* The engine's frame loop.  A frame sets time.dt, advances the invoke      *)
(* sequences, then calls update() on every enabled entity in the order of   *)
(* scene.entities: the player, the monster (start_game creates them in      *)
(* this order), then the projectiles in the order they were fired.  Input   *)
(* and collision events are delivered between frames.                       *)

Idle == [phase |-> "idle", dt |-> 0, idx |-> 0]

Live(e) == e.exists /\ e.enabled

\* the next update() call of the frame, after `done` of its stages
FrameAfter(w, done, dt) ==
    IF done < 1 /\ Live(w.player) THEN [phase |-> "player", dt |-> dt, idx |-> 0]
    ELSE IF done < 2 /\ Live(w.monster) THEN [phase |-> "monster", dt |-> dt, idx |-> 0]
    ELSE IF Len(w.projectiles) >= 1 THEN [phase |-> "projectiles", dt |-> dt, idx |-> 1]
    ELSE Idle

\* the sequences whose delay has not elapsed after dt more
Waiting(seqs, dt) == SelectSeq([i \in 1..Len(seqs) |-> seqs[i] - dt], LAMBDA t : t > 0)

\* a frame begins: every invoke whose delay has elapsed calls
\* game.set_game_state(GameState.WIN)
BeginFrame ==
    /\ app_running /\ frame = Idle
    /\ \E dt \in FrameTimes :
          LET fired == Len(Waiting(sequences, dt)) < Len(sequences)
              w == IF fired THEN SetGameState(World, WIN) ELSE World
          IN  /\ Commit(w)
              /\ sequences' = Waiting(sequences, dt)
              /\ frame' = FrameAfter(w, 0, dt)
    /\ UNCHANGED app_running

PlayerStep ==
    /\ frame.phase = "player"
    /\ LET w == PlayerUpdate(World, frame.dt)
       IN  /\ Commit(w)
           /\ frame' = FrameAfter(w, 1, frame.dt)
    /\ UNCHANGED <<sequences, app_running>>

\* the steps along x, in half cells, that the controller's update takes in
\* one frame
Moves == {<<-1, 0>>, <<0, 0>>, <<1, 0>>}

\* Player.update with the movement of the first-person controller it calls
\* first: the player walks at most MaxStray half cells from the spawn point
PlayerWalks ==
    /\ frame.phase = "player"
    /\ \E move \in Moves :
          LET to == <<player.position[1] + move[1],
                      player.position[2] + move[2]>>
              w == PlayerUpdate([World EXCEPT !.player.position = to],
                                frame.dt)
          IN  /\ Abs(to[1] - player.start_position[1]) <= MaxStray
              /\ Commit(w)
              /\ frame' = FrameAfter(w, 1, frame.dt)
    /\ UNCHANGED <<sequences, app_running>>

MonsterStep ==
    /\ frame.phase = "monster"
    /\ \E in_vision \in BOOLEAN :
          LET w == MonsterUpdate(World, frame.dt, in_vision)
          IN  /\ w.monster.current_patrol_time <= MaxPatrolTime
              /\ Commit(LogAttack(World, w, frame.dt))
              /\ frame' = FrameAfter(w, 2, frame.dt)
    /\ UNCHANGED <<sequences, app_running>>

ProjectileStep ==
    /\ frame.phase = "projectiles"
    /\ \E intersects \in BOOLEAN :
          LET w == ProjectileUpdate(World, frame.idx, frame.dt, intersects)
              next == IF Len(w.projectiles) < Len(projectiles)
                      THEN frame.idx ELSE frame.idx + 1
          IN  /\ Commit(w)
              /\ frame' = IF next <= Len(w.projectiles)
                          THEN [frame EXCEPT !.idx = next] ELSE Idle
    /\ UNCHANGED <<sequences, app_running>>

-----------------------------------------------------------------------------
(* Input and collision events *)

Ready == app_running /\ frame = Idle

\* a faulty _handle_global_input: escape while Playing goes to the menu
KeyEscapeToMenu ==
    /\ Ready
    /\ CASE current_state = PAUSED ->
              Commit(SetGameState(World, PLAYING)) /\ UNCHANGED app_running
         [] current_state \in {PLAYING, WIN, LOSE} ->
              Commit(SetGameState(World, MENU)) /\ UNCHANGED app_running
         [] OTHER ->
              Commit(World) /\ app_running' = FALSE
    /\ UNCHANGED <<sequences, frame>>

\* Game._handle_global_input('escape')
KeyEscape ==
    /\ Ready
    /\ CASE current_state = PLAYING ->
              Commit(SetGameState(World, PAUSED)) /\ UNCHANGED app_running
         [] current_state = PAUSED ->
              Commit(SetGameState(World, PLAYING)) /\ UNCHANGED app_running
         [] current_state \in {WIN, LOSE} ->
              Commit(SetGameState(World, MENU)) /\ UNCHANGED app_running
         [] OTHER ->
              Commit(World) /\ app_running' = FALSE
    /\ UNCHANGED <<sequences, frame>>

\* start_button.on_click = self.start_game
ClickStartButton ==
    /\ Ready /\ Clickable("start_button")
    /\ \E g \in MazeTable[Dim] :
          \E m \in FindMonsterSpawnPoint(Dim, g) : Commit(StartGame(World, g, m))
    /\ UNCHANGED <<sequences, frame, app_running>>

\* exit_button.on_click = application.quit
ClickExitButton ==
    /\ Ready /\ Clickable("exit_button")
    /\ Commit(World)
    /\ app_running' = FALSE
    /\ UNCHANGED <<sequences, frame>>

\* a faulty restart button: it sets the state without start_game
ClickRestartButtonResumes ==
    /\ Ready /\ Clickable("restart_button")
    /\ Commit(SetGameState(World, PLAYING))
    /\ UNCHANGED <<sequences, frame, app_running>>

\* restart_button.on_click = self.restart_game
ClickRestartButton ==
    /\ Ready /\ Clickable("restart_button")
    /\ \E g \in MazeTable[Dim] :
          \E m \in FindMonsterSpawnPoint(Dim, g) : Commit(StartGame(World, g, m))
    /\ UNCHANGED <<sequences, frame, app_running>>

\* back_to_menu_button.on_click = self.go_to_main_menu
ClickBackToMenuButton ==
    /\ Ready /\ Clickable("back_to_menu_button")
    /\ Commit(SetGameState(World, MENU))
    /\ UNCHANGED <<sequences, frame, app_running>>

\* resume_button.on_click = lambda: self.set_game_state(GameState.PLAYING)
ClickResumeButton ==
    /\ Ready /\ Clickable("resume_button")
    /\ Commit(SetGameState(World, PLAYING))
    /\ UNCHANGED <<sequences, frame, app_running>>

\* pause_to_menu_button.on_click = self.go_to_main_menu
ClickPauseToMenuButton ==
    /\ Ready /\ Clickable("pause_to_menu_button")
    /\ Commit(SetGameState(World, MENU))
    /\ UNCHANGED <<sequences, frame, app_running>>

\* a faulty on_trigger_enter: any entity that enters the trigger wins
OnTriggerEnterAny(seqs, other) == Append(seqs, WIN_DELAY)

\* Goal.on_trigger_enter(other): the invoke sequences after the call
OnTriggerEnter(seqs, other) ==
    IF other = "player" THEN Append(seqs, WIN_DELAY) ELSE seqs

\* the trigger of the enabled goal is entered by an enabled entity
GoalTriggerEnter ==
    /\ Ready /\ Live(goal)
    /\ \E other \in {"player", "monster"} :
          /\ Live(IF other = "player" THEN player ELSE monster)
          /\ Commit(Calls(World, "on_trigger_enter"))
          /\ Len(OnTriggerEnter(sequences, other)) <= MaxSequences
          /\ sequences' = OnTriggerEnter(sequences, other)
    /\ UNCHANGED <<frame, app_running>>

\* player.take_damage(amount) called by a caller other than a projectile of
\* the frame loop, with the configured damage
DamageEvent ==
    /\ Ready /\ Live(player)
    /\ current_state = PLAYING
    /\ Commit(TakeDamage(World, game_config.MONSTER_ATTACK_DAMAGE))
    /\ UNCHANGED <<sequences, frame, app_running>>

-----------------------------------------------------------------------------
(* TerrainMazeGenerator.generate_random_maze step by step: the recursion of *)
(* _carve_path with its call stack.  A frame of the stack is a running      *)
(* call: its cell and the directions its loop has still to visit.           *)

Top == stack[Len(stack)]

Pop(s) == SubSeq(s, 1, Len(s) - 1)

\* a call of _carve_path(cx, cy) that has marked its cell and shuffled
Frame(cx, cy) == [cx |-> cx, cy |-> cy, rest |-> 1..4]

\* generate_random_maze up to its call of _carve_path: the old mesh is
\* destroyed, the grid is all walls, the start cell is drawn and marked
GenerateRandomMaze ==
    /\ stack = <<>>
    /\ \E s \in StartCells(Dim) :
          /\ maze_grid' = SetCell(AllWalls(Dim), s[1], s[2], PATH)
          /\ stack' = <<Frame(s[1], s[2])>>
    /\ mesh_entity' = FALSE
    /\ carve_calls' = 1
    /\ UNCHANGED <<game_config, spawn_search, gameVars>>

\* one iteration of the loop of the running _carve_path call
CarveStep ==
    /\ stack # <<>>
    /\ \E k \in Top.rest :
          LET dx == Directions[k][1]
              dy == Directions[k][2]
              nx == Top.cx + dx * 2
              ny == Top.cy + dy * 2
              visited == [stack EXCEPT ![Len(stack)].rest = @ \ {k}]
          IN  IF CanCarve(Dim, maze_grid, nx, ny)
              THEN /\ maze_grid' = Carve(maze_grid, Top.cx, Top.cy, dx, dy)
                   /\ stack' = Append(visited, Frame(nx, ny))
                   /\ carve_calls' = carve_calls + 1
              ELSE /\ stack' = visited
                   /\ UNCHANGED <<maze_grid, carve_calls>>
    /\ UNCHANGED <<game_config, mesh_entity, spawn_search, gameVars>>

\* the loop of the running call is over: it returns; when it was the first
\* call, generate_random_maze goes on to _create_mesh_from_grid
CarveReturn ==
    /\ stack # <<>>
    /\ Top.rest = {}
    /\ stack' = Pop(stack)
    /\ mesh_entity' = (Len(stack) = 1)
    /\ UNCHANGED <<game_config, maze_grid, carve_calls, spawn_search, gameVars>>

\* generate_random_maze has returned
MazeDone == stack = <<>> /\ maze_grid # <<>>

\* the grid the recursion ends with is one of those of the relation
\* GeneratedMazes, which start_game draws from
RelationAgrees == MazeDone => maze_grid \in MazeTable[Dim]

-----------------------------------------------------------------------------
(* TerrainMazeGenerator.find_monster_spawn_point step by step: the loop     *)
(* `while attempts < 100` with one sample per iteration                     *)

\* no call of find_monster_spawn_point has been made
NoSearch ==
    [running |-> FALSE, attempts |-> 0, samples |-> 0, sample |-> None,
     returned |-> None]

\* find_monster_spawn_point is called: attempts = 0
FindMonsterSpawnPointCall ==
    /\ ~spawn_search.running
    /\ maze_grid # <<>>
    /\ spawn_search' = [NoSearch EXCEPT !.running = TRUE]
    /\ UNCHANGED <<game_config, maze_grid, mesh_entity, stack, carve_calls,
                   gameVars>>

\* one iteration of the loop: x and y are drawn by random.randint(1, D - 2);
\* the sample is returned if it passes the test, else attempts += 1
SpawnSample ==
    /\ spawn_search.running
    /\ spawn_search.attempts < MAX_SPAWN_ATTEMPTS
    /\ \E x, y \in 1..(Dim - 2) :
          spawn_search' =
              IF MonsterSampleOk(Dim, maze_grid, <<x, y>>)
              THEN [spawn_search EXCEPT !.running = FALSE,
                                        !.samples = @ + 1,
                                        !.sample = <<x, y>>,
                                        !.returned = <<x, y>>]
              ELSE [spawn_search EXCEPT !.samples = @ + 1,
                                        !.sample = <<x, y>>,
                                        !.attempts = @ + 1]
    /\ UNCHANGED <<game_config, maze_grid, mesh_entity, stack, carve_calls,
                   gameVars>>

\* the loop is over: return (dimension // 2, dimension // 2)
SpawnFallback ==
    /\ spawn_search.running
    /\ ~(spawn_search.attempts < MAX_SPAWN_ATTEMPTS)
    /\ spawn_search' = [spawn_search EXCEPT !.running = FALSE,
                                            !.returned = <<Dim \div 2, Dim \div 2>>]
    /\ UNCHANGED <<game_config, maze_grid, mesh_entity, stack, carve_calls,
                   gameVars>>

\* the cell the call returns is one of those start_game draws from
SearchAgrees ==
    spawn_search.returned # None =>
        spawn_search.returned \in FindMonsterSpawnPoint(Dim, maze_grid)

-----------------------------------------------------------------------------
(* TerrainMazeGenerator._create_mesh_from_grid: the quads of the mesh, each *)
(* four vertices and two triangles, in the order they are appended          *)

Quad(face, x, z) == [face |-> face, x |-> x, z |-> z]

\* a faulty mesh builder: the north face is drawn for path cells too
CellQuadsPathSides(D, g, x_idx, z_idx) ==
    LET is_wall == Cell(g, x_idx, z_idx) = WALL
        top == <<Quad("top", x_idx, z_idx)>>
        north == IF z_idx = D - 1
                    \/ (z_idx + 1 < D /\ Cell(g, x_idx, z_idx + 1) = PATH)
                 THEN <<Quad("north", x_idx, z_idx)>>
                 ELSE <<>>
        south == IF (z_idx = 0
                      \/ (z_idx - 1 >= 0 /\ Cell(g, x_idx, z_idx - 1) = PATH))
                    /\ is_wall
                 THEN <<Quad("south", x_idx, z_idx)>>
                 ELSE <<>>
        east == IF (x_idx = D - 1
                     \/ (x_idx + 1 < D /\ Cell(g, x_idx + 1, z_idx) = PATH))
                   /\ is_wall
                THEN <<Quad("east", x_idx, z_idx)>>
                ELSE <<>>
        west == IF (x_idx = 0
                     \/ (x_idx - 1 >= 0 /\ Cell(g, x_idx - 1, z_idx) = PATH))
                   /\ is_wall
                THEN <<Quad("west", x_idx, z_idx)>>
                ELSE <<>>
    IN  top \o north \o south \o east \o west

\* the body of the loop over the cells: the top face, then the north, south,
\* east and west faces of a wall cell at the edge or next to a path
CellQuads(D, g, x_idx, z_idx) ==
    LET is_wall == Cell(g, x_idx, z_idx) = WALL
        top == <<Quad("top", x_idx, z_idx)>>
        north == IF (z_idx = D - 1
                      \/ (z_idx + 1 < D /\ Cell(g, x_idx, z_idx + 1) = PATH))
                    /\ is_wall
                 THEN <<Quad("north", x_idx, z_idx)>>
                 ELSE <<>>
        south == IF (z_idx = 0
                      \/ (z_idx - 1 >= 0 /\ Cell(g, x_idx, z_idx - 1) = PATH))
                    /\ is_wall
                 THEN <<Quad("south", x_idx, z_idx)>>
                 ELSE <<>>
        east == IF (x_idx = D - 1
                     \/ (x_idx + 1 < D /\ Cell(g, x_idx + 1, z_idx) = PATH))
                   /\ is_wall
                THEN <<Quad("east", x_idx, z_idx)>>
                ELSE <<>>
        west == IF (x_idx = 0
                     \/ (x_idx - 1 >= 0 /\ Cell(g, x_idx - 1, z_idx) = PATH))
                   /\ is_wall
                THEN <<Quad("west", x_idx, z_idx)>>
                ELSE <<>>
    IN  top \o north \o south \o east \o west

RECURSIVE MeshFrom(_, _, _)

\* the quads of the cells from the i-th on: for z_idx in range(dimension):
\* for x_idx in range(dimension)
MeshFrom(D, g, i) ==
    IF i >= D * D THEN <<>>
    ELSE CellQuads(D, g, i % D, i \div D) \o MeshFrom(D, g, i + 1)

\* the quads of the mesh _create_mesh_from_grid builds
MeshFromGrid(D, g) == MeshFrom(D, g, 0)

\* _create_mesh_from_grid, called on the grid of the generator
CreateMeshFromGrid ==
    /\ stack = <<>>
    /\ maze_grid # <<>>
    /\ ~mesh_entity
    /\ mesh_entity' = TRUE
    /\ UNCHANGED <<game_config, maze_grid, stack, carve_calls, spawn_search,
                   gameVars>>

-----------------------------------------------------------------------------
(* Specifications *)

\* The frame loop is explored on the smallest of the configured mazes: no
\* handler of a frame reads the grid.
GameConfigs == {c \in Configs : \A d \in Dimensions : c.MAZE_DIMENSION <= d}

\* Game.__init__ (its set_game_state(MENU) returns at once: the state is
\* MENU already) after GameConfig() and UIManager()
Constructed(configs) ==
    /\ game_config \in configs
    /\ maze_grid = <<>>
    /\ mesh_entity = FALSE
    /\ stack = <<>>
    /\ carve_calls = 0
    /\ spawn_search = NoSearch
    /\ current_state = MENU
    /\ player = NoPlayer
    /\ goal = NoGoal
    /\ monster = NoMonster
    /\ game_entities = <<>>
    /\ projectiles = <<>>
    /\ ui_enabled = InitialUi
    /\ health_display = INITIAL_HEALTH_TEXT
    /\ sequences = <<>>
    /\ frame = Idle
    /\ app_running = TRUE
    /\ called = {}
    /\ state_before = MENU
    /\ since_hit = -1
    /\ attack_log = NoAttackLog

Init == Constructed(GameConfigs)

Next ==
    \/ BeginFrame
    \/ PlayerStep
    \/ MonsterStep
    \/ ProjectileStep
    \/ KeyEscape
    \/ ClickStartButton
    \/ ClickExitButton
    \/ ClickRestartButton
    \/ ClickBackToMenuButton
    \/ ClickResumeButton
    \/ ClickPauseToMenuButton
    \/ GoalTriggerEnter

\* the game
Spec == Init /\ [][Next]_vars

HarnessNext ==
    \/ Next
    \/ DamageEvent

\* the game, with take_damage also called from outside the frame loop
HarnessSpec == Init /\ [][HarnessNext]_vars

WideInit == Constructed(Configs)

MenuNext ==
    \/ KeyEscape
    \/ ClickStartButton
    \/ ClickExitButton
    \/ ClickResumeButton
    \/ ClickPauseToMenuButton

\* the game on every configured maze, as far as it goes before the first
\* frame is rendered
MenuSpec == WideInit /\ [][MenuNext]_vars

MazeNext ==
    \/ GenerateRandomMaze
    \/ CarveStep
    \/ CarveReturn

\* the maze generator alone, on every configured dimension
MazeSpec == WideInit /\ [][MazeNext]_vars

\* the maze generator alone, its running recursion never left waiting: the
\* interpreter runs the loop of the running call to its end
MazeLiveSpec == MazeSpec /\ WF_vars(CarveStep \/ CarveReturn)

\* every grid of wall and path cells of dimension D
Grids(D) == [1..D -> [1..D -> {WALL, PATH}]]

\* the grids the mesh builder is run on: every grid of the smallest
\* dimension, and the generated mazes of the others
MeshGrids(D) == IF D <= MaxGridDim THEN Grids(D) ELSE MazeTable[D]

\* a constructed game whose generator holds a grid
Loaded(mesh) ==
    /\ game_config \in Configs
    /\ mesh_entity = mesh
    /\ stack = <<>>
    /\ carve_calls = 0
    /\ spawn_search = NoSearch
    /\ current_state = MENU
    /\ player = NoPlayer
    /\ goal = NoGoal
    /\ monster = NoMonster
    /\ game_entities = <<>>
    /\ projectiles = <<>>
    /\ ui_enabled = InitialUi
    /\ health_display = INITIAL_HEALTH_TEXT
    /\ sequences = <<>>
    /\ frame = Idle
    /\ app_running = TRUE
    /\ called = {}
    /\ state_before = MENU
    /\ since_hit = -1
    /\ attack_log = NoAttackLog

\* a generator that holds a grid and no mesh
MeshInit == Loaded(FALSE) /\ maze_grid \in MeshGrids(Dim)

MeshNext == CreateMeshFromGrid

\* the mesh builder alone
MeshSpec == MeshInit /\ [][MeshNext]_vars

\* a generator whose generate_random_maze has returned
SpawnInit == Loaded(TRUE) /\ maze_grid \in MazeTable[Dim]

SpawnNext ==
    \/ FindMonsterSpawnPointCall
    \/ SpawnSample
    \/ SpawnFallback

\* find_monster_spawn_point alone, on the generated mazes
SpawnSpec == SpawnInit /\ [][SpawnNext]_vars

-----------------------------------------------------------------------------
(* The state machine of the game *)

\* the edges the specification lists
ListedEdges ==
    {<<MENU, PLAYING>>, <<PLAYING, PAUSED>>, <<PAUSED, PLAYING>>,
     <<PLAYING, WIN>>, <<PLAYING, LOSE>>, <<WIN, MENU>>, <<LOSE, MENU>>,
     <<WIN, PLAYING>>, <<LOSE, PLAYING>>}

\* the edges of the code that are not listed: the pause menu's button to the
\* main menu, and the delayed callback of the goal trigger firing after the
\* state has moved on
UnlistedEdges ==
    {<<PAUSED, MENU>>, <<PAUSED, WIN>>, <<LOSE, WIN>>, <<MENU, WIN>>}

\* C1 as stated: every change of current_state is one of the nine listed
\* edges.
C1_ListedEdgesOnly ==
    [][current_state' # current_state =>
         <<current_state, current_state'>> \in ListedEdges]_vars

\* C1, amended: every change of current_state is one of the nine listed
\* edges, or Paused -> Menu, or a change to Win from Paused, Lose or Menu made
\* by the delayed callback of the goal trigger.
C1_EdgesOnly ==
    [][current_state' # current_state =>
         <<current_state, current_state'>> \in ListedEdges \cup UnlistedEdges]_vars

\* the last step went from Lose to Win: the callback fired after the loss
C1_WinAfterLose == state_before = LOSE /\ current_state = WIN

\* the calls by which start_game makes the maze and the spawn cells
GenerationCalls ==
    {"generate_random_maze", "find_spawn_point", "find_goal_point",
     "find_monster_spawn_point"}

\* C2 as stated: every step that makes the state Playing calls
\* generate_random_maze and recomputes the three spawn cells.
C2_AlwaysRegenerated ==
    [][(current_state # PLAYING /\ current_state' = PLAYING) =>
         GenerationCalls \subseteq called']_vars

\* C2, amended: a step that makes the state Playing from Menu, Win or Lose
\* generates the maze and places the three entities on the spawn cells
\* computed from it; a step that makes it Playing from Paused calls none of
\* this and leaves the maze and the spawn positions as they were.
C2_RegeneratedUnlessResumed ==
    [][(current_state # PLAYING /\ current_state' = PLAYING) =>
         IF current_state = PAUSED
         THEN /\ called' \cap GenerationCalls = {}
              /\ maze_grid' = maze_grid
              /\ player'.start_position = player.start_position
              /\ goal'.position = goal.position
              /\ monster'.start_position = monster.start_position
         ELSE /\ GenerationCalls \subseteq called'
              /\ maze_grid' \in GeneratedMazes(Dim)
              /\ mesh_entity'
              /\ player'.position =
                     GetWorldPosition(Dim, FindSpawnPoint(Dim, maze_grid'))
              /\ goal'.position =
                     GetWorldPosition(Dim, FindGoalPoint(Dim, maze_grid'))
              /\ \E c \in FindMonsterSpawnPoint(Dim, maze_grid') :
                     monster'.position = GetWorldPosition(Dim, c)]_vars

\* the last step resumed the paused game, in the maze it was paused in
C2_Resumed ==
    /\ state_before = PAUSED /\ current_state = PLAYING
    /\ maze_grid # <<>> /\ called = {}

\* C3: if the monster or the goal is enabled or a projectile exists the state
\* is Playing; Monster.update changes nothing unless the state is Playing;
\* while Paused the player is enabled, the monster and the goal are disabled
\* and no projectile exists.
C3_ActivityGated ==
    /\ (monster.enabled \/ goal.enabled \/ projectiles # <<>>) =>
           current_state = PLAYING
    /\ (current_state # PLAYING /\ monster.exists) =>
           \A dt \in FrameTimes : \A in_vision \in BOOLEAN :
               MonsterUpdate(World, dt, in_vision) = World
    /\ current_state = PAUSED =>
           /\ player.enabled
           /\ ~monster.enabled /\ ~goal.enabled
           /\ projectiles = <<>>

\* the game is paused while the monster winds up an attack
C3_PausedInWindup ==
    /\ current_state = PAUSED
    /\ Live(player)
    /\ monster.exists /\ monster.is_winding_up_attack

-----------------------------------------------------------------------------
(* The generated maze *)

PathCells(D, g) ==
    {c \in (0..(D - 1)) \X (0..(D - 1)) : Cell(g, c[1], c[2]) = PATH}

Adjacent(c, d) == Manhattan(c, d) = 1

RECURSIVE ReachableFrom(_, _)

\* the cells of `cells` reachable from `seen` by steps between adjacent cells
ReachableFrom(cells, seen) ==
    LET more == {d \in cells \ seen : \E c \in seen : Adjacent(c, d)}
    IN  IF more = {} THEN seen ELSE ReachableFrom(cells, seen \cup more)

Connected(cells) == \A c \in cells : ReachableFrom(cells, {c}) = cells

\* the pairs of adjacent cells, each pair once
Edges(cells) == {e \in cells \X cells : Adjacent(e[1], e[2]) /\ ScansBefore(e[1], e[2])}

Odd(n) == n % 2 = 1

\* C4: after generate_random_maze the Path cells form one connected component
\* under 4-adjacency.
C4_PathsConnected == MazeDone => Connected(PathCells(Dim, maze_grid))

\* a maze with more than one cell has been generated
C4_MazeGenerated ==
    /\ MazeDone /\ mesh_entity
    /\ Cardinality(PathCells(Dim, maze_grid)) > 1

\* C5: with n = (D - 1) / 2, every odd/odd cell of the generated grid is
\* Path, every even/even cell is Wall, exactly n * n - 1 connector cells are
\* Path, and the graph of Path cells has (number of Path cells - 1) edges and
\* no cycle.
C5_PerfectMaze ==
    MazeDone =>
        LET n == (Dim - 1) \div 2
            paths == PathCells(Dim, maze_grid)
            connectors == {c \in paths : Odd(c[1]) # Odd(c[2])}
        IN  /\ \A x, y \in 0..(Dim - 1) :
                   /\ (Odd(x) /\ Odd(y)) => Cell(maze_grid, x, y) = PATH
                   /\ (~Odd(x) /\ ~Odd(y)) => Cell(maze_grid, x, y) = WALL
            /\ Cardinality(connectors) = n * n - 1
            /\ Cardinality(Edges(paths)) = Cardinality(paths) - 1
            /\ Connected(paths)

\* a maze of four lattice cells has been generated by four _carve_path calls
C5_LatticeCarved ==
    /\ MazeDone
    /\ Dim > 3
    /\ carve_calls = ((Dim - 1) \div 2) * ((Dim - 1) \div 2)

\* C6: on a generated grid find_spawn_point and find_goal_point return
\* interior cells that are Path, and neither takes its fallback return.
C6_SpawnAndGoalOnPath ==
    MazeDone =>
        LET s == FindSpawnPoint(Dim, maze_grid)
            e == FindGoalPoint(Dim, maze_grid)
        IN  /\ s \in Interior(Dim) /\ Cell(maze_grid, s[1], s[2]) = PATH
            /\ e \in Interior(Dim) /\ Cell(maze_grid, e[1], e[2]) = PATH
            /\ ScanHits(Dim, maze_grid) # {}

\* the two scans end on different cells of a generated grid
C6_ScansApart ==
    /\ MazeDone
    /\ FindSpawnPoint(Dim, maze_grid) # FindGoalPoint(Dim, maze_grid)
    /\ FindSpawnPoint(Dim, maze_grid) \in ScanHits(Dim, maze_grid)
    /\ FindGoalPoint(Dim, maze_grid) \in ScanHits(Dim, maze_grid)

\* the cell of the grid a world position lies in
CellAt(p) == Cell(maze_grid, GridCell(Dim, p)[1], GridCell(Dim, p)[2])

\* C7 as stated: after start_game the player, the goal and the monster stand
\* on Path cells of the generated grid, also when the monster's cell is the
\* fallback of find_monster_spawn_point.
C7_SpawnsOnPath ==
    (current_state = PLAYING /\ "find_monster_spawn_point" \in called) =>
        /\ CellAt(player.start_position) = PATH
        /\ CellAt(goal.position) = PATH
        /\ CellAt(monster.start_position) = PATH

-----------------------------------------------------------------------------
(* The player's health *)

\* C8 as stated: 0 <= current_health <= max_health in every reachable state.
C8_HealthInRange ==
    player.exists =>
        /\ 0 <= player.current_health
        /\ player.current_health <= player.max_health

\* C8, amended: 1 - damage <= current_health <= max_health, where damage is
\* the configured damage amount; current_health is at least 0 when that
\* amount is 1.
C8_HealthAboveLastDamage ==
    player.exists =>
        /\ 1 - game_config.MONSTER_ATTACK_DAMAGE <= player.current_health
        /\ player.current_health <= player.max_health
        /\ game_config.MONSTER_ATTACK_DAMAGE = 1 => player.current_health >= 0

\* a hit of more damage than the health that was left
C8_NegativeHealth ==
    /\ player.exists
    /\ player.current_health < 0
    /\ current_state = LOSE

\* C9: a take_damage call made after a health decrement of the running game
\* and before Player.update has accumulated PLAYER_HIT_INVULNERABILITY_TIME
\* of dt since then leaves current_health unchanged: health is decremented at
\* most once per invulnerability window.
C9_OneHitPerWindow ==
    [][("take_damage" \in called' /\ player.exists
            /\ 0 <= since_hit /\ since_hit < PLAYER_HIT_INVULNERABILITY_TIME) =>
         player'.current_health = player.current_health]_vars

\* a second take_damage call within the window of a first hit that it left
\* the only one
C9_SecondHitIgnored ==
    /\ "take_damage" \in called
    /\ 0 < since_hit /\ since_hit < PLAYER_HIT_INVULNERABILITY_TIME
    /\ player.is_invulnerable
    /\ player.current_health =
           player.max_health - game_config.MONSTER_ATTACK_DAMAGE

\* C10: the state becomes Lose in the step of a take_damage call that brings
\* current_health from above 0 to 0 or below, and in no other step; such a
\* call always makes it Lose; and current_health >= 1 while Playing.
C10_LoseOnLethalDamage ==
    /\ [](current_state = PLAYING =>
              player.exists /\ player.current_health >= 1)
    /\ [][/\ (current_state # LOSE /\ current_state' = LOSE) =>
                 /\ current_state = PLAYING
                 /\ "take_damage" \in called'
                 /\ player.current_health > 0
                 /\ player'.current_health <= 0
          /\ ("take_damage" \in called' /\ player'.current_health <= 0) =>
                 current_state' = LOSE]_vars

\* the last step was the lethal hit
C10_JustLost ==
    /\ state_before = PLAYING /\ current_state = LOSE
    /\ "take_damage" \in called
    /\ player.current_health <= 0

-----------------------------------------------------------------------------
(* The monster's attack *)

\* the step is a Monster.update call that completes the windup
WindupCompletes ==
    /\ frame.phase = "monster"
    /\ monster.is_winding_up_attack
    /\ monster.attack_windup_timer - frame.dt <= 0

\* C11: the Monster.update call in which the windup timer reaches 0 or less
\* creates exactly one MonsterProjectile, clears _is_winding_up_attack and
\* sets the cooldown timer to MONSTER_ATTACK_COOLDOWN; no other step of the
\* game creates a projectile.
C11_FiresOncePerWindup ==
    [][/\ WindupCompletes =>
              /\ Len(projectiles') = Len(projectiles) + 1
              /\ SubSeq(projectiles', 1, Len(projectiles)) = projectiles
              /\ ~monster'.is_winding_up_attack
              /\ monster'.attack_cooldown_timer = MONSTER_ATTACK_COOLDOWN
       /\ Len(projectiles') > Len(projectiles) => WindupCompletes]_vars

\* the monster has just fired: its projectile has not been updated yet
C11_JustFired ==
    /\ frame.phase = "projectiles"
    /\ projectiles # <<>>
    /\ projectiles[Len(projectiles)].timer = MONSTER_ATTACK_PROJECTILE_LIFETIME
    /\ ~monster.is_winding_up_attack
    /\ monster.attack_cooldown_timer = MONSTER_ATTACK_COOLDOWN

\* the monster after the windup branch, the chase branch and the patrol
\* branch of a Monster.update call that leaves the cooldown timer at cooldown
AfterWindupStart(cooldown) ==
    [monster EXCEPT !.attack_cooldown_timer = cooldown,
                    !.is_winding_up_attack = TRUE,
                    !.attack_windup_timer = MONSTER_ATTACK_WINDUP_TIME,
                    !.target_for_attack = player.position]

AfterChase(cooldown) ==
    [monster EXCEPT !.attack_cooldown_timer = cooldown,
                    !.position = <<@[1] + Sgn(player.position[1] - @[1]),
                                   @[2] + Sgn(player.position[2] - @[2])>>]

AfterPatrol(cooldown, dt) ==
    [monster EXCEPT !.attack_cooldown_timer = cooldown,
                    !.current_patrol_time = @ + dt * MONSTER_PATROL_FREQUENCY,
                    !.position =
                        <<monster.patrol_start_x
                              + PatrolOffset(monster.current_patrol_time
                                                 + dt * MONSTER_PATROL_FREQUENCY),
                          monster.start_position[2]>>]

\* C12: a Monster.update call in Playing of a monster that is not winding up
\* decreases the cooldown timer by dt and then takes exactly one branch: it
\* starts the windup iff the player is enabled, in vision range and the
\* decreased cooldown is 0 or less; it chases iff the player is in range and
\* the cooldown is above 0; it patrols iff the player is not in range.
C12_OneBranch ==
    (frame.phase = "monster" /\ current_state = PLAYING
         /\ ~monster.is_winding_up_attack) =>
        \A in_vision \in BOOLEAN :
            LET after == MonsterUpdate(World, frame.dt, in_vision).monster
                cooldown == monster.attack_cooldown_timer - frame.dt
                in_range == player.exists /\ player.enabled /\ in_vision
            IN  /\ after.attack_cooldown_timer = cooldown
                /\ after = AfterWindupStart(cooldown) <=> (in_range /\ cooldown <= 0)
                /\ after = AfterChase(cooldown) <=> (in_range /\ cooldown > 0)
                /\ after = AfterPatrol(cooldown, frame.dt) <=> ~in_range

\* the player came into range of the patrolling monster when the cooldown
\* was over: the windup has started and the monster stands where its patrol
\* left it
C12_WindupFromPatrol ==
    /\ frame.phase # "monster"
    /\ monster.exists
    /\ monster.is_winding_up_attack
    /\ monster.attack_windup_timer = MONSTER_ATTACK_WINDUP_TIME
    /\ monster.current_patrol_time > 0
    /\ monster.position # player.position
    /\ monster.position =
           <<monster.patrol_start_x + PatrolOffset(monster.current_patrol_time),
             monster.start_position[2]>>

\* ceil(a / b) for positive integers
Ceil(a, b) == (a + b - 1) \div b

\* every Monster.update call of the running windup had the frame's dt
FixedDt == attack_log.elapsed = attack_log.ticks * frame.dt

\* the windup of a run with fixed dt: the projectile is created on the
\* ceil(WINDUP / dt)-th Monster.update call after the one that started the
\* windup, when the calls have summed at least WINDUP of dt
WindupLasts ==
    (frame.phase = "monster" /\ monster.is_winding_up_attack) =>
        /\ FixedDt =>
               (WindupCompletes <=>
                    attack_log.ticks + 1 = Ceil(MONSTER_ATTACK_WINDUP_TIME, frame.dt))
        /\ WindupCompletes =>
               attack_log.elapsed + frame.dt >= MONSTER_ATTACK_WINDUP_TIME

\* the Monster.update calls since the last firing have summed at least t
SinceFire(t) == attack_log.since_fire = -1 \/ attack_log.since_fire >= t

\* a windup has started and no Monster.update call was made since
WindupJustStarted ==
    monster.exists /\ monster.is_winding_up_attack /\ attack_log.ticks = 0

-----------------------------------------------------------------------------
(* The menu *)

\* C14: whenever current_state is Menu no dynamic entity remains: the player,
\* goal and monster references are None, game_entities is empty, the maze
\* grid is empty, mesh_entity is None and no MonsterProjectile exists.
C14_MenuIsEmpty ==
    current_state = MENU =>
        /\ ~player.exists /\ ~goal.exists /\ ~monster.exists
        /\ game_entities = <<>>
        /\ maze_grid = <<>>
        /\ ~mesh_entity
        /\ projectiles = <<>>

\* the menu has been entered from Win, after a game was played
C14_MenuAfterWin ==
    /\ current_state = MENU
    /\ state_before = WIN
    /\ ui_enabled = MenuGroup

\* C15: set_game_state(s) called while current_state equals s changes
\* nothing: the state, the enabled flag of every UI element and gameplay
\* entity, the projectiles and the maze are as before; so it is in every
\* state of the game, and so it is for a second call right after any
\* transition.
C15_SameStateNoOp ==
    /\ SetGameState(World, current_state) = World
    /\ \A s \in GameState :
           SetGameState(SetGameState(World, s), s) = SetGameState(World, s)

\* Game.__init__ has called set_game_state(MENU) in the state MENU: the UI
\* is as UIManager constructed it, not as a transition into Menu leaves it
C15_ConstructedMenu ==
    /\ current_state = MENU
    /\ state_before = MENU
    /\ ui_enabled = InitialUi
    /\ ui_enabled # MenuGroup

-----------------------------------------------------------------------------
(* start_game *)

\* the last step was a call of start_game
StartGameCalled == "generate_random_maze" \in called

-----------------------------------------------------------------------------
(* The goal *)

\* the step is a frame in which the delay of an invoke elapses
DelayElapses == frame = Idle /\ Len(sequences') < Len(sequences)

\* C17: when the delay of the invoke of on_trigger_enter elapses in the
\* state Playing the state becomes Win, the player, the goal and the monster
\* are disabled and no projectile exists; the state does not become Win in
\* any other step, the trigger step included; a trigger-enter by an entity
\* other than the player schedules nothing.
C17_WinAfterDelay ==
    /\ [](\A other \in {"monster", "projectile"} :
              OnTriggerEnter(sequences, other) = sequences)
    /\ [][/\ (current_state = PLAYING /\ DelayElapses) =>
                 /\ current_state' = WIN
                 /\ ~player'.enabled /\ ~goal'.enabled /\ ~monster'.enabled
                 /\ projectiles' = <<>>
          /\ (current_state # WIN /\ current_state' = WIN) => DelayElapses
          /\ "on_trigger_enter" \in called' =>
                 /\ current_state' = current_state
                 /\ Len(sequences') >= Len(sequences)]_vars

\* the game has just been won in the frame after the player reached the goal
C17_JustWon ==
    /\ state_before = PLAYING
    /\ current_state = WIN
    /\ sequences = <<>>
    /\ player.exists /\ ~player.enabled
    /\ monster.exists /\ ~monster.enabled

-----------------------------------------------------------------------------
(* The mesh *)

\* the number of quads of the mesh with this face at this cell
QuadCount(mesh, face, x, z) ==
    Cardinality({i \in 1..Len(mesh) : mesh[i] = Quad(face, x, z)})

Faces == [north |-> <<0, 1>>, south |-> <<0, -1>>, east |-> <<1, 0>>,
          west |-> <<-1, 0>>]

\* the cell is a wall and its neighbour in the direction of the face is a
\* path or lies outside the grid
Exposed(D, g, face, x, z) ==
    LET nx == x + Faces[face][1]
        nz == z + Faces[face][2]
    IN  /\ Cell(g, x, z) = WALL
        /\ \/ nx < 0 \/ nx >= D \/ nz < 0 \/ nz >= D
           \/ Cell(g, nx, nz) = PATH

\* C18: the mesh has exactly one top quad per cell and, for each cell and
\* each of the four directions, one side quad if the cell is a wall and its
\* neighbour in that direction is a path or the cell lies on that edge of the
\* grid, and none otherwise; the mesh has no other quad.
C18_SideQuads ==
    mesh_entity =>
        LET mesh == MeshFromGrid(Dim, maze_grid)
            exposed == {c \in (DOMAIN Faces) \X (0..Dim - 1) \X (0..Dim - 1) :
                           Exposed(Dim, maze_grid, c[1], c[2], c[3])}
        IN  /\ \A x, z \in 0..Dim - 1 :
                   /\ QuadCount(mesh, "top", x, z) = 1
                   /\ \A face \in DOMAIN Faces :
                          QuadCount(mesh, face, x, z) =
                              IF Exposed(Dim, maze_grid, face, x, z) THEN 1 ELSE 0
            /\ Len(mesh) = Dim * Dim + Cardinality(exposed)

\* a mesh has been built from a grid with a wall cell enclosed by walls,
\* which has no side quad, a path cell in a corner and a wall cell next to it
C18_MeshBuilt ==
    /\ mesh_entity
    /\ Dim = 3
    /\ \A c \in {<<1, 1>>, <<0, 1>>, <<1, 0>>, <<2, 1>>, <<1, 2>>} :
           Cell(maze_grid, c[1], c[2]) = WALL
    /\ Cell(maze_grid, 0, 0) = PATH
    /\ QuadCount(MeshFromGrid(Dim, maze_grid), "west", 1, 0) = 1
    /\ \A face \in DOMAIN Faces :
           /\ QuadCount(MeshFromGrid(Dim, maze_grid), face, 1, 1) = 0
           /\ QuadCount(MeshFromGrid(Dim, maze_grid), face, 0, 0) = 0

-----------------------------------------------------------------------------
(* The recursion of _carve_path *)

\* the odd/odd cells of the grid
Lattice(D) == {c \in (0..D - 1) \X (0..D - 1) : Odd(c[1]) /\ Odd(c[2])}

\* the odd/odd cells no call of _carve_path has marked yet
Uncarved == {c \in Lattice(Dim) : Cell(maze_grid, c[1], c[2]) = WALL}

RECURSIVE LoopsLeft(_)

\* the iterations the loops of the running calls have still to make
LoopsLeft(s) ==
    IF s = <<>> THEN 0 ELSE Cardinality(s[Len(s)].rest) + LoopsLeft(Pop(s))

\* what is left of the recursion: every step of it makes this smaller
Variant == 6 * Cardinality(Uncarved) + LoopsLeft(stack) + Len(stack)

\* the step is a call of _carve_path: the first, or a recursive one
CarveCall == carve_calls' = carve_calls + 1 \/ (stack = <<>> /\ stack' # <<>>)

-----------------------------------------------------------------------------
(* The monster's spawn cell *)

\* C20: find_monster_spawn_point draws at most 100 samples; what it returns
\* is either its last sample, an interior path cell whose Manhattan distances
\* to find_spawn_point() and to find_goal_point() are both greater than
\* D / 4, or, after 100 samples that all failed the test, the cell
\* (D // 2, D // 2).
C20_SampleOrFallback ==
    /\ spawn_search.samples <= MAX_SPAWN_ATTEMPTS
    /\ spawn_search.attempts <= spawn_search.samples
    /\ spawn_search.returned # None =>
           LET c == spawn_search.returned
           IN  \/ /\ c = spawn_search.sample
                  /\ c \in Interior(Dim)
                  /\ Cell(maze_grid, c[1], c[2]) = PATH
                  /\ 4 * Manhattan(c, FindSpawnPoint(Dim, maze_grid)) > Dim
                  /\ 4 * Manhattan(c, FindGoalPoint(Dim, maze_grid)) > Dim
               \/ /\ spawn_search.attempts = MAX_SPAWN_ATTEMPTS
                  /\ spawn_search.samples = MAX_SPAWN_ATTEMPTS
                  /\ c = <<Dim \div 2, Dim \div 2>>

\* the fallback was returned after 100 failed samples, on a maze in which
\* some cell passes the test: the centre, a wall
C20_FallbackOnWall ==
    /\ spawn_search.returned = <<Dim \div 2, Dim \div 2>>
    /\ spawn_search.attempts = MAX_SPAWN_ATTEMPTS
    /\ Cell(maze_grid, Dim \div 2, Dim \div 2) = WALL
    /\ \E c \in Interior(Dim) : MonsterSampleOk(Dim, maze_grid, c)

-----------------------------------------------------------------------------
(* The monster's timers *)

\* C21: the monster is never both winding up and cooling:
\* _is_winding_up_attack is never true together with a cooldown timer above
\* 0, and between Monster.update calls _is_winding_up_attack true implies a
\* windup timer above 0.
C21_OneTimerActive ==
    (monster.exists /\ monster.is_winding_up_attack) =>
        /\ monster.attack_cooldown_timer <= 0
        /\ monster.attack_windup_timer > 0

\* the monster is in the middle of a windup that started when the cooldown
\* after a firing had run out
C21_MidWindup ==
    /\ monster.exists /\ monster.is_winding_up_attack
    /\ attack_log.ticks > 0
    /\ attack_log.since_fire >= MONSTER_ATTACK_COOLDOWN
    /\ monster.attack_windup_timer < MONSTER_ATTACK_WINDUP_TIME

\* the game with a player who walks
AimNext ==
    \/ BeginFrame
    \/ PlayerWalks
    \/ MonsterStep
    \/ ProjectileStep
    \/ ClickStartButton
    \/ ClickRestartButton

AimSpec == Init /\ [][AimNext]_vars

-----------------------------------------------------------------------------
\* The aim of the projectile

\* a Monster.update call that starts a windup
WindupStarts ==
    /\ frame.phase = "monster"
    /\ ~monster.is_winding_up_attack
    /\ monster'.is_winding_up_attack

\* C22: the projectile fired at the end of a windup is aimed at the position
\* the player had in the Monster.update call that started the windup: the
\* call captures the player's position, no step taken while the windup lasts
\* changes the captured target however the player walks, and the call that
\* ends the windup creates a projectile from the monster's position towards
\* the captured target and clears the target.
C22_AimedAtCapturedTarget ==
    [][/\ WindupStarts => monster'.target_for_attack = player.position
       /\ (monster.is_winding_up_attack /\ monster'.is_winding_up_attack) =>
              monster'.target_for_attack = monster.target_for_attack
       /\ WindupCompletes =>
              /\ monster.target_for_attack # None
              /\ projectiles'[Len(projectiles')] =
                     NewProjectile(monster.position,
                                   monster.target_for_attack)
              /\ monster'.target_for_attack = None]_vars

\* the monster has just fired at a place the player has left since
C22_FiredWherePlayerWas ==
    /\ frame.phase = "projectiles"
    /\ projectiles # <<>>
    /\ projectiles[Len(projectiles)].timer = MONSTER_ATTACK_PROJECTILE_LIFETIME
    /\ projectiles[Len(projectiles)].toward # player.position
    /\ projectiles[Len(projectiles)].from = monster.position
    /\ monster.target_for_attack = None

-----------------------------------------------------------------------------
\* The hit of a projectile

\* C23: a MonsterProjectile.update call calls take_damage only on a player
\* that exists and is enabled, and the call that does so removes the
\* projectile from the scene (so that it cannot hit again) and lowers the
\* player's health by MONSTER_ATTACK_DAMAGE exactly once, or not at all if the
\* player is invulnerable; a call that does not call take_damage leaves the
\* player's health alone.
C23_HitsOnceAndDies ==
    [][frame.phase = "projectiles" =>
          IF "take_damage" \in called'
          THEN /\ player.exists /\ player.enabled
               /\ projectiles' \in {RemoveAt(projectiles, frame.idx), <<>>}
               /\ player'.current_health =
                      IF player.is_invulnerable
                      THEN player.current_health
                      ELSE player.current_health
                               - game_config.MONSTER_ATTACK_DAMAGE
          ELSE player'.current_health = player.current_health]_vars

\* a projectile has just hit an invulnerable player: it is gone and the
\* health is what the earlier hit left
C23_HitWhileInvulnerable ==
    /\ called = {"MonsterProjectile.update", "take_damage"}
    /\ current_state = PLAYING
    /\ player.is_invulnerable /\ since_hit > 0
    /\ player.current_health < player.max_health
    /\ projectiles = <<>>

-----------------------------------------------------------------------------
\* The cells of the spawn point and of the goal

\* C24: on every grid generate_random_maze ends with for a dimension of 5 or
\* more, find_spawn_point returns (1, 1) and find_goal_point returns
\* (D-2, D-2), two different cells, whatever cell the carving started in and
\* whatever the order of the directions was.
C24_SpawnAndGoalCorners ==
    (MazeDone /\ Dim >= 5) =>
        /\ FindSpawnPoint(Dim, maze_grid) = <<1, 1>>
        /\ FindGoalPoint(Dim, maze_grid) = <<Dim - 2, Dim - 2>>
        /\ FindSpawnPoint(Dim, maze_grid) # FindGoalPoint(Dim, maze_grid)

\* a finished maze of dimension 5 in which the spawn corner does not open
\* along its row: the scans still end in the two corners
C24_CornerClosedAlongRow ==
    /\ MazeDone /\ Dim = 5
    /\ Cell(maze_grid, 2, 1) = WALL
    /\ Cell(maze_grid, 1, 2) = PATH
    /\ FindSpawnPoint(Dim, maze_grid) = <<1, 1>>
    /\ FindGoalPoint(Dim, maze_grid) = <<Dim - 2, Dim - 2>>

-----------------------------------------------------------------------------
\* A Win request that outlives its game

\* C25 as stated: when the delay of a pending invoke elapses after the state
\* has left Playing, or at the first frame of a game that start_game has just
\* started (the request is then of an earlier game), current_state does not
\* change.
C25_StaleWinIgnored ==
    [][(DelayElapses /\ (current_state # PLAYING \/ StartGameCalled)) =>
           current_state' = current_state]_vars

-----------------------------------------------------------------------------
\* The health the HUD shows

\* C26 as stated: in the state Playing the health last passed to
\* update_health_display (before the first call, the health of the text the
\* HUD is built with) is the player's current_health.
C26_HudShowsHealth ==
    current_state = PLAYING => health_display = player.current_health

-----------------------------------------------------------------------------
\* The base of the patrol

\* games on every configured maze that are won at their first frame and
\* then restarted in place or left for the menu
RestartNext ==
    \/ ClickStartButton
    \/ GoalTriggerEnter
    \/ BeginFrame
    \/ ClickRestartButton
    \/ ClickBackToMenuButton

RestartSpec == WideInit /\ [][RestartNext]_vars

\* C27 as stated: the patrol base coordinate of a monster that exists is the
\* x of its start_position.
C27_PatrolBaseIsSpawnX ==
    monster.exists => monster.patrol_start_x = monster.start_position[1]

-----------------------------------------------------------------------------
\* A tick of the windup

\* C28: a Monster.update call of a monster that is winding up and whose
\* windup timer is above 0 after the call's decrement changes nothing of the
\* monster but that timer (position, cooldown timer, patrol time and captured
\* target stay, the windup is not started again) and creates no projectile.
C28_WindupTickIsIdle ==
    [][(/\ frame.phase = "monster"
        /\ current_state = PLAYING
        /\ monster.is_winding_up_attack
        /\ monster.attack_windup_timer - frame.dt > 0) =>
           /\ monster' = [monster EXCEPT !.attack_windup_timer = @ - frame.dt]
           /\ projectiles' = projectiles]_vars

\* the first tick of a windup has passed and the windup goes on, the monster
\* away from its spawn point with its captured target
C28_WindupGoesOn ==
    /\ current_state = PLAYING
    /\ monster.is_winding_up_attack
    /\ attack_log.ticks = 1
    /\ monster.attack_windup_timer = MONSTER_ATTACK_WINDUP_TIME - ShortDt
    /\ monster.position # monster.start_position
    /\ monster.target_for_attack = player.position
    /\ projectiles = <<>>

-----------------------------------------------------------------------------
\* The outer ring of the grid

Ring(D) ==
    {c \in (0..D - 1) \X (0..D - 1) : c[1] \in {0, D - 1} \/ c[2] \in {0, D - 1}}

\* the cells the _carve_path call made by the step writes: its own cell and,
\* when the call is made from the loop of another call, the cell between
Written ==
    IF stack = <<>>
    THEN {<<Top'.cx, Top'.cy>>}
    ELSE {<<Top'.cx, Top'.cy>>,
          <<(Top.cx + Top'.cx) \div 2, (Top.cy + Top'.cy) \div 2>>}

\* C29: while the maze is carved and when it is done every cell of the outer
\* ring is Wall; every cell a _carve_path call writes, the cell between
\* included, has both indices in 1..D-2, the call writes Path there and
\* leaves every other cell of the grid as it was, and no other step writes
\* the grid.
C29_CarvingStaysInside ==
    /\ [](maze_grid # <<>> =>
              \A c \in Ring(Dim) : Cell(maze_grid, c[1], c[2]) = WALL)
    /\ [][IF CarveCall
          THEN LET before == IF stack = <<>> THEN AllWalls(Dim) ELSE maze_grid
               IN  /\ \A c \in Written :
                          /\ c[1] \in 1..(Dim - 2) /\ c[2] \in 1..(Dim - 2)
                          /\ Cell(maze_grid', c[1], c[2]) = PATH
                   /\ \A c \in ((0..Dim - 1) \X (0..Dim - 1)) \ Written :
                          Cell(maze_grid', c[1], c[2]) = Cell(before, c[1], c[2])
          ELSE maze_grid' = maze_grid]_vars

\* the running call carves the last interior cell before the ring, reached
\* along the last interior column
C29_CarvedAlongRing ==
    /\ Dim = 5 /\ Len(stack) > 1
    /\ Top.cx = Dim - 2 /\ Top.cy = Dim - 2
    /\ stack[Len(stack) - 1].cx = Dim - 2 /\ stack[Len(stack) - 1].cy = 1
    /\ Cell(maze_grid, Dim - 2, 2) = PATH
    /\ \A c \in Ring(Dim) : Cell(maze_grid, c[1], c[2]) = WALL

-----------------------------------------------------------------------------
\* The entities of a running game

\* C30: in the state Playing the player, the goal and the monster exist and
\* are enabled, game_entities holds these three and nothing else, each once,
\* and the maze grid has D rows of D cells.
C30_PlayingIsComplete ==
    current_state = PLAYING =>
        /\ player.exists /\ player.enabled
        /\ goal.exists /\ goal.enabled
        /\ monster.exists /\ monster.enabled
        /\ Len(game_entities) = 3
        /\ \A name \in {"player", "goal", "monster"} :
               Cardinality({i \in 1..Len(game_entities) :
                                game_entities[i] = name}) = 1
        /\ Len(maze_grid) = Dim
        /\ \A y \in 1..Dim : Len(maze_grid[y]) = Dim

\* a game that was won has just been restarted from the game over screen:
\* the list holds the three entities in the order of their creation
C30_RestartedAfterWin ==
    /\ StartGameCalled
    /\ state_before = WIN /\ current_state = PLAYING
    /\ game_entities = <<"player", "goal", "monster">>
    /\ player.enabled /\ goal.enabled /\ monster.enabled

-----------------------------------------------------------------------------
\* The end of a projectile's lifetime

\* the step is the MonsterProjectile.update call in which the lifetime of
\* the projectile runs out
LifetimeEnds ==
    /\ frame.phase = "projectiles"
    /\ projectiles[frame.idx].timer - frame.dt <= 0

\* C31 as stated: the MonsterProjectile.update call in which the lifetime
\* timer reaches 0 or less removes the projectile from the scene (so that no
\* later call of it is made) and does not call take_damage.
C31_ExpiredNeverHits ==
    [][LifetimeEnds =>
           /\ projectiles' \in {RemoveAt(projectiles, frame.idx), <<>>}
           /\ "take_damage" \notin called']_vars

-----------------------------------------------------------------------------
\* Frames of the paused game

\* the step is part of a frame: the frame begins, or an update of it is made
FrameTick == frame' # frame \/ DelayElapses

\* C32: a step of a frame in the state Paused changes nothing of the monster
\* and creates no projectile; as long as the state stays Paused the player is
\* enabled and every frame calls Player.update, which takes dt off the
\* invulnerability timer of an invulnerable player and ends the
\* invulnerability when the timer is 0 or less.
C32_PausedFrame ==
    /\ [](current_state = PAUSED => player.exists /\ player.enabled)
    /\ [][(current_state = PAUSED /\ FrameTick) =>
              /\ monster' = monster
              /\ projectiles' = projectiles
              /\ frame.phase \in {"idle", "player"}
              /\ (frame = Idle /\ current_state' = PAUSED) =>
                     frame'.phase = "player"
              /\ (frame.phase = "player" /\ player.is_invulnerable) =>
                     /\ player'.invulnerability_timer =
                            player.invulnerability_timer - frame.dt
                     /\ player'.is_invulnerable =
                            (player.invulnerability_timer - frame.dt > 0)]_vars

\* the game was paused in the frame in which the monster fired and hit the
\* player, and the invulnerability of that hit has run out in the pause
C32_ExpiredInPause ==
    /\ current_state = PAUSED /\ frame = Idle
    /\ attack_log.since_fire = 0
    /\ player.current_health < player.max_health
    /\ ~player.is_invulnerable /\ player.invulnerability_timer <= 0
    /\ since_hit = PLAYER_HIT_INVULNERABILITY_TIME

-----------------------------------------------------------------------------
\* The monster keeps firing

\* Monster.update of a frame in which the player is within the monster's
\* vision range
MonsterStepInRange ==
    /\ frame.phase = "monster"
    /\ LET w == MonsterUpdate(World, frame.dt, TRUE)
       IN  /\ Commit(LogAttack(World, w, frame.dt))
           /\ frame' = FrameAfter(w, 2, frame.dt)
    /\ UNCHANGED <<sequences, app_running>>

\* the steps of the frame loop
FrameStep ==
    \/ BeginFrame
    \/ PlayerStep
    \/ MonsterStepInRange
    \/ ProjectileStep

ChaseNext ==
    \/ FrameStep
    \/ KeyEscape
    \/ ClickStartButton
    \/ ClickRestartButton

\* the game with a player who stays within the monster's vision range
ChaseSpec == Init /\ [][ChaseNext]_vars

\* the same, the engine running the frame loop as long as the application
\* runs: a step of a frame that can be taken is taken
ChaseLiveSpec == ChaseSpec /\ WF_vars(FrameStep)

\* the monster has fired in this frame
Fired == frame.phase = "projectiles" /\ attack_log.since_fire = 0

\* C33: with the frame loop running and the player within the monster's
\* vision range in every Monster.update call, from every state in which the
\* game is in Playing either the state leaves Playing or the monster fires a
\* projectile; a game that stays in Playing for ever therefore sees
\* projectiles fired again and again.
C33_KeepsFiring ==
    (current_state = PLAYING) ~> (current_state # PLAYING \/ Fired)

\* the monster fires at a player whom a projectile of the same game has hit
\* before
C33_FiredAgain ==
    /\ Fired
    /\ current_state = PLAYING
    /\ since_hit >= 0
    /\ player.current_health < player.max_health
    /\ ~attack_log.restarted

====
